---- MODULE Spec2Model ----
(***************************************************************************)
(* Model of the Flask serving layer (backend/spotify_api_dynamic.py): the   *)
(* recommendation endpoints together with the recommender class they call  *)
(* (ml/recommender.py, specified in spec.md sections 4.2-4.5), the upload  *)
(* of a playlist table and the analysis endpoints that read it; of the     *)
(* offline build script (backend/train_recommender.py); and of the rating  *)
(* page of the frontend (frontend/pages/recommendations_page.py).          *)
(*                                                                         *)
(* Feature space: one standardized audio feature per track, an integer.    *)
(* Euclidean distance in one dimension is the absolute difference.  The    *)
(* taste point sum(r_i * v_i) / sum(r_i) is the rational W / S; every      *)
(* distance |v - W/S| is kept as the integer numerator D = |v*S - W| over  *)
(* the common denominator S, so no division is needed to order neighbours  *)
(* and the similarity 1 / (1 + D/S) is the exact rational S / (S + D).     *)
(***************************************************************************)
EXTENDS Integers, Sequences, FiniteSets, TLC

VARIABLES
    recommender,   \* the module global `recommender` (None or the loaded model)
    request,       \* the request the last handler run answered
    response,      \* the response that handler returned
    rec_calls,     \* the recommender methods that handler run invoked, in order
    df,            \* the module global `df`: the uploaded table, None before an upload
    first,         \* history: the first recommend request handled and its outcome
    sampled,       \* history: the identifiers the sample responses have returned
    uploads,       \* the /upload requests in progress, one thread each
    build,         \* the run of the offline build script
    session_state  \* st.session_state of the rating page

vars == <<recommender, request, response, rec_calls, df, first, sampled,
          uploads, build, session_state>>

\* the parts of the repository outside the sequential serving layer
outside == <<uploads, build, session_state>>

-----------------------------------------------------------------------------
(* Bounds of the model *)

MaxTopK == 3          \* top_k of a request ranges over -1 .. MaxTopK, or is omitted
MaxOffset == 4        \* rated identifiers are windows o .. o+9, o in -1 .. MaxOffset
MaxRatingValue == 6   \* numeric rating values of a request range over 0 .. MaxRatingValue
MaxRows == 2          \* an uploaded CSV file holds 0 .. MaxRows rows

(* Program constants *)

RequiredRatings == 10     \* len(ratings_data) != 10
SampleSize == 10          \* get_random_songs(n=10)
DefaultTopK == 10         \* data.get('top_k', 10)
ScoreScale == 10000       \* round(float(row['similarity_score']), 4)
MinRating == 1            \* rating_value < 1
MaxRating == 5            \* rating_value > 5
PoolMargin == 10          \* neighbour pool of at least K + 10

-----------------------------------------------------------------------------
(* Small helpers *)

Abs(x) == IF x < 0 THEN -x ELSE x

Min2(a, b) == IF a < b THEN a ELSE b

Range(s) == {s[i] : i \in 1..Len(s)}

Take(s, n) == IF n >= Len(s) THEN s ELSE SubSeq(s, 1, n)

RECURSIVE SeqSum(_)
SeqSum(s) == IF s = <<>> THEN 0 ELSE s[1] + SeqSum(Tail(s))

RECURSIVE SelectSeq2(_, _)
\* the subsequence of s whose `row` is not in the set excluded
SelectSeq2(s, excluded) ==
    IF s = <<>> THEN <<>>
    ELSE IF s[1].row \in excluded THEN SelectSeq2(Tail(s), excluded)
    ELSE <<s[1]>> \o SelectSeq2(Tail(s), excluded)

-----------------------------------------------------------------------------
(* The loaded recommender: Python None is [loaded |-> FALSE].  A loaded     *)
(* recommender carries scaled_features, one standardized feature per       *)
(* catalog row; row identifiers are positions 0 .. N-1.                    *)

None == [loaded |-> FALSE, scaled_features |-> <<>>]

Loaded(features) == [loaded |-> TRUE, scaled_features |-> features]

\* ten rows: rating any ten distinct rows leaves no candidate
CatalogTen == <<-7, -5, -3, -2, -1, 0, 1, 2, 4, 6>>
\* twelve rows, two of them with equal features
CatalogTwelve == <<-8, -5, -3, -2, -1, 0, 0, 1, 2, 4, 6, 9>>
\* fourteen rows, the last one far from every other row
CatalogFar == <<-6, -4, -3, -2, -1, 0, 1, 1, 2, 3, 4, 5, 7, 30000>>

Catalogs == {CatalogTen, CatalogTwelve, CatalogFar}

CatalogSize(rec) == Len(rec.scaled_features)

RowIds(rec) == 0 .. (CatalogSize(rec) - 1)

FeatureOf(rec, id) == rec.scaled_features[id + 1]

-----------------------------------------------------------------------------
(* JSON values of a request body.                                          *)
(* A rating value is [t, v]: t = "num" a JSON number v, t = "bool" a JSON  *)
(* true (v = 1) or false (v = 0), t = "nan" the literal NaN that Python's  *)
(* json.loads accepts, t = "str" a JSON string.                            *)

Num(v) == [t |-> "num", v |-> v]
JsonTrue == [t |-> "bool", v |-> 1]
JsonFalse == [t |-> "bool", v |-> 0]
JsonNaN == [t |-> "nan", v |-> 0]
JsonStr == [t |-> "str", v |-> 0]

RatingValues ==
    {Num(v) : v \in 0..MaxRatingValue} \cup {JsonTrue, JsonFalse, JsonNaN, JsonStr}

\* isinstance(rating_value, (int, float)): bool is a subclass of int, NaN is a float
IsIntOrFloat(rv) == rv.t \in {"num", "bool", "nan"}

\* rating_value < bound and rating_value > bound; every comparison with NaN is False
LessThan(rv, bound) == rv.t # "nan" /\ rv.v < bound
GreaterThan(rv, bound) == rv.t # "nan" /\ rv.v > bound

\* a rating that is a number of the closed interval [MinRating, MaxRating]
NumericInRange(rv) == rv.t \in {"num", "bool"} /\ MinRating <= rv.v /\ rv.v <= MaxRating

\* an element of the ratings array: a JSON object with optional keys, or a
\* JSON number / null, on which the `in` operator raises TypeError
Item(id, rv) == [kind |-> "dict", has_df_index |-> TRUE, df_index |-> id,
                 has_rating |-> TRUE, rating |-> rv]
ItemNoIndex(rv) == [kind |-> "dict", has_df_index |-> FALSE, df_index |-> 0,
                    has_rating |-> TRUE, rating |-> rv]
ItemNoRating(id) == [kind |-> "dict", has_df_index |-> TRUE, df_index |-> id,
                     has_rating |-> FALSE, rating |-> Num(0)]
ItemNotDict == [kind |-> "nondict", has_df_index |-> FALSE, df_index |-> 0,
                has_rating |-> FALSE, rating |-> Num(0)]

\* the request body: body = FALSE is a missing or empty JSON body
Body(has_ratings, is_list, items, has_top_k, top_k) ==
    [body |-> TRUE, has_ratings |-> has_ratings, is_list |-> is_list,
     items |-> items, has_top_k |-> has_top_k, top_k |-> top_k]
NoBody == [body |-> FALSE, has_ratings |-> FALSE, is_list |-> FALSE,
           items |-> <<>>, has_top_k |-> FALSE, top_k |-> 0]

-----------------------------------------------------------------------------
(* Responses: jsonify(...) with the HTTP status                            *)

ErrorResponse(status, error, detail) ==
    [status |-> status, error |-> error, detail |-> detail,
     songs |-> <<>>, total |-> 0, recommendations |-> <<>>, count |-> 0]

SongsResponse(songs) ==
    [status |-> 200, error |-> "", detail |-> "",
     songs |-> songs, total |-> Len(songs), recommendations |-> <<>>, count |-> 0]

RecommendationsResponse(result) ==
    [status |-> 200, error |-> "", detail |-> "",
     songs |-> <<>>, total |-> 0, recommendations |-> result, count |-> Len(result)]

NoResponse == ErrorResponse(0, "", "")

ModelNotLoadedError == ErrorResponse(500, "Recommender model not loaded", "")
RatingsRequiredError == ErrorResponse(400, "ratings array is required in request body", "")
RatingsFormatError == ErrorResponse(400, "ratings must be an array of 10 items", "")
ItemKeysError == ErrorResponse(400, "Each rating must have df_index and rating", "")
RatingRangeError == ErrorResponse(400, "Rating must be between 1 and 5", "")
EmptyResultError == ErrorResponse(500, "Could not generate recommendations", "")
RecommendationFailed(detail) == ErrorResponse(500, "Recommendation failed", detail)
RandomSongsFailed(detail) == ErrorResponse(500, "Failed to get random songs", detail)

\* the responses the handler produces from its own checks of the request
ValidationErrors ==
    {RatingsRequiredError, RatingsFormatError, ItemKeysError, RatingRangeError}

-----------------------------------------------------------------------------
(* The recommender class (ml/recommender.py), after spec.md 4.2 - 4.5      *)

\* S: the sum of the ratings, the denominator of the taste point
TasteWeight(ratings) ==
    SeqSum([i \in 1..Len(ratings) |-> ratings[i].v])

\* W: the rating-weighted sum of the rated feature vectors; taste point = W / S
TasteMoment(rec, rated_indices, ratings) ==
    SeqSum([i \in 1..Len(ratings) |-> ratings[i].v * FeatureOf(rec, rated_indices[i])])

\* S times the Euclidean distance of row id from the taste point W / S
Distance(rec, id, S, W) == Abs(FeatureOf(rec, id) * S - W)

RECURSIVE NearestFirst(_, _, _, _)
\* the rows of the set ids by ascending distance, equal distances by ascending row
NearestFirst(rec, ids, S, W) ==
    IF ids = {} THEN <<>>
    ELSE LET best == CHOOSE i \in ids : \A j \in ids :
                         \/ Distance(rec, i, S, W) < Distance(rec, j, S, W)
                         \/ /\ Distance(rec, i, S, W) = Distance(rec, j, S, W)
                            /\ i <= j
         IN  <<[row |-> best, dist |-> Distance(rec, best, S, W)]>>
                 \o NearestFirst(rec, ids \ {best}, S, W)

\* Neighbor Index query: the n nearest rows, at most the rows of the catalog
KNeighbors(rec, S, W, n) ==
    Take(NearestFirst(rec, RowIds(rec), S, W), Min2(n, CatalogSize(rec)))

\* size of the neighbour pool requested for K results
PoolSize(rec, k) == Min2(k + PoolMargin, CatalogSize(rec))

\* similarity 1 / (1 + distance) with distance = D / S, as the rational S / (S + D)
Similarity(D, S) == [num |-> S, den |-> S + D]

\* the Rating Aggregator's and the Recommender's validation; "" when the call is valid
ValidationFailure(rec, rated_indices, ratings, k) ==
    IF Len(rated_indices) # RequiredRatings \/ Len(ratings) # RequiredRatings
    THEN "rating count is not ten"
    ELSE IF \E i \in 1..Len(rated_indices) : rated_indices[i] \notin RowIds(rec)
    THEN "unresolvable identifier"
    ELSE IF \E i \in 1..Len(ratings) : ~NumericInRange(ratings[i])
    THEN "rating outside [1, 5]"
    ELSE IF k <= 0
    THEN "non-positive result count"
    ELSE ""

\* recommender.recommend_from_ratings(rated_indices, ratings, n_recommendations):
\* raised names the exception ("" for none), rows is the returned table
RecommendFromRatings(rec, rated_indices, ratings, k) ==
    IF ~rec.loaded
    THEN [raised |-> "AttributeError", rows |-> <<>>]
    ELSE IF ValidationFailure(rec, rated_indices, ratings, k) # ""
    THEN [raised |-> ValidationFailure(rec, rated_indices, ratings, k), rows |-> <<>>]
    ELSE LET S == TasteWeight(ratings)
             W == TasteMoment(rec, rated_indices, ratings)
             pool == KNeighbors(rec, S, W, PoolSize(rec, k))
             kept == SelectSeq2(pool, Range(rated_indices))
             scored == [i \in 1..Len(kept) |->
                           [row |-> kept[i].row,
                            similarity_score |-> Similarity(kept[i].dist, S)]]
         IN  [raised |-> "", rows |-> Take(scored, k)]

\* the outcomes of recommender.get_random_songs(n) the model draws: every choice
\* of n distinct rows (all rows of a smaller catalog), in ascending or
\* descending row order
RandomSamples(rec, n) ==
    LET size == Min2(n, CatalogSize(rec))
        sets == {ids \in SUBSET RowIds(rec) : Cardinality(ids) = size}
        Asc(ids) == [i \in 1..size |->
                        CHOOSE x \in ids : Cardinality({y \in ids : y < x}) = i - 1]
        Desc(ids) == [i \in 1..size |->
                        CHOOSE x \in ids : Cardinality({y \in ids : y > x}) = i - 1]
    IN  {Asc(ids) : ids \in sets} \cup {Desc(ids) : ids \in sets}

-----------------------------------------------------------------------------
(* The handlers of backend/spotify_api_dynamic.py                          *)

\* the guard left out
ModelNotLoadedUnchecked(rec) == FALSE

\* `if recommender is None`
ModelNotLoaded(rec) == ~rec.loaded

\* `if not data or 'ratings' not in data`
RatingsMissing(data) == ~data.body \/ ~data.has_ratings

\* a non-positive top_k raised to 1
TopKOfClamped(data) ==
    IF ~data.has_top_k THEN DefaultTopK
    ELSE IF data.top_k < 1 THEN 1 ELSE data.top_k

\* the request's top_k ignored
TopKOfIgnoringRequest(data) == DefaultTopK

\* `top_k = data.get('top_k', 10)`
TopKOf(data) == IF data.has_top_k THEN data.top_k ELSE DefaultTopK

\* only too few items refused
RatingsFormatBadAtLeastTen(data) == ~data.is_list \/ Len(data.items) < RequiredRatings

\* `if not isinstance(ratings_data, list) or len(ratings_data) != 10`
RatingsFormatBad(data) == ~data.is_list \/ Len(data.items) # RequiredRatings

\* `if not isinstance(rating_value, (int, float)) or rating_value < 1 or rating_value > 5`
RatingRejected(rv) ==
    ~IsIntOrFloat(rv) \/ LessThan(rv, MinRating) \/ GreaterThan(rv, MaxRating)

RECURSIVE ExtractRatingsByPosition(_, _, _, _)
\* the display position of the item (its 'id') taken for its df_index
ExtractRatingsByPosition(items, i, df_indices, ratings) ==
    IF i > Len(items)
    THEN [outcome |-> "ok", df_indices |-> df_indices, ratings |-> ratings]
    ELSE IF items[i].kind # "dict"
    THEN [outcome |-> "TypeError", df_indices |-> df_indices, ratings |-> ratings]
    ELSE IF ~items[i].has_df_index \/ ~items[i].has_rating
    THEN [outcome |-> "keys", df_indices |-> df_indices, ratings |-> ratings]
    ELSE IF ~IsIntOrFloat(items[i].rating) \/ LessThan(items[i].rating, MinRating)
            \/ GreaterThan(items[i].rating, MaxRating)
    THEN [outcome |-> "range", df_indices |-> Append(df_indices, i - 1),
          ratings |-> ratings]
    ELSE ExtractRatingsByPosition(items, i + 1, Append(df_indices, i - 1),
                                  Append(ratings, items[i].rating))

RECURSIVE ExtractRatings(_, _, _, _)
\* the loop `for rating_item in ratings_data`: it stops at the first item that
\* raises, lacks a key or carries a rejected rating
ExtractRatings(items, i, df_indices, ratings) ==
    IF i > Len(items)
    THEN [outcome |-> "ok", df_indices |-> df_indices, ratings |-> ratings]
    ELSE IF items[i].kind # "dict"
    THEN [outcome |-> "TypeError", df_indices |-> df_indices, ratings |-> ratings]
    ELSE IF ~items[i].has_df_index \/ ~items[i].has_rating
    THEN [outcome |-> "keys", df_indices |-> df_indices, ratings |-> ratings]
    ELSE IF RatingRejected(items[i].rating)
    THEN [outcome |-> "range",
          df_indices |-> Append(df_indices, items[i].df_index), ratings |-> ratings]
    ELSE ExtractRatings(items, i + 1, Append(df_indices, items[i].df_index),
                        Append(ratings, items[i].rating))

\* `round(float(row['similarity_score']), 4)` in units of 1 / ScoreScale,
\* ties to the even neighbour
RoundScore(sim) ==
    LET n == ScoreScale * sim.num
        q == n \div sim.den
        r == n % sim.den
    IN  IF 2 * r > sim.den THEN q + 1
        ELSE IF 2 * r < sim.den THEN q
        ELSE q + (q % 2)

\* each entry put in front of the entries formatted before it
FormatRecommendationsReversed(rows) ==
    [i \in 1..Len(rows) |->
        [track |-> rows[Len(rows) + 1 - i].row,
         similarity_score |-> RoundScore(rows[Len(rows) + 1 - i].similarity_score)]]

\* the loop `for _, row in recommendations.iterrows()`: one entry per row, in
\* row order; track stands for the row's display metadata
FormatRecommendations(rows) ==
    [i \in 1..Len(rows) |->
        [track |-> rows[i].row, similarity_score |-> RoundScore(rows[i].similarity_score)]]

\* the catalog identifier of the row used for its display id
FormatSongsByRow(sample) ==
    [i \in 1..Len(sample) |-> [id |-> sample[i], df_index |-> sample[i]]]

\* the loop `for idx, (df_idx, row) in enumerate(random_songs.iterrows())`
FormatSongs(sample) ==
    [i \in 1..Len(sample) |-> [id |-> i - 1, df_index |-> sample[i]]]

\* the exception swallowed into an empty successful response
OnRecommendExceptionSwallowed(name) == RecommendationsResponse(<<>>)

\* `except Exception as e` of submit_ratings_and_recommend
OnRecommendException(name) == RecommendationFailed(name)

\* the check for an empty table left out
OnRecommendationsUnchecked(rows) == RecommendationsResponse(FormatRecommendations(rows))

\* `if recommendations.empty` and the formatting of a successful response
OnRecommendations(rows) ==
    IF rows = <<>> THEN EmptyResultError
    ELSE RecommendationsResponse(FormatRecommendations(rows))

RecommendCall(df_indices, ratings, n) ==
    [method |-> "recommend_from_ratings", rated_indices |-> df_indices,
     ratings |-> ratings, n |-> n]

RandomSongsCall(n) ==
    [method |-> "get_random_songs", rated_indices |-> <<>>, ratings |-> <<>>, n |-> n]

\* submit_ratings_and_recommend(): the response and the recommender calls made
SubmitRatingsAndRecommend(rec, data) ==
    IF ModelNotLoaded(rec)
    THEN [response |-> ModelNotLoadedError, calls |-> <<>>]
    ELSE IF RatingsMissing(data)
    THEN [response |-> RatingsRequiredError, calls |-> <<>>]
    ELSE IF RatingsFormatBad(data)
    THEN [response |-> RatingsFormatError, calls |-> <<>>]
    ELSE LET scan == ExtractRatings(data.items, 1, <<>>, <<>>)
         IN  CASE scan.outcome = "TypeError" ->
                    [response |-> OnRecommendException("TypeError"), calls |-> <<>>]
               [] scan.outcome = "keys" ->
                    [response |-> ItemKeysError, calls |-> <<>>]
               [] scan.outcome = "range" ->
                    [response |-> RatingRangeError, calls |-> <<>>]
               [] OTHER ->
                    LET r == RecommendFromRatings(rec, scan.df_indices, scan.ratings,
                                                  TopKOf(data))
                    IN  [response |-> IF r.raised # ""
                                      THEN OnRecommendException(r.raised)
                                      ELSE OnRecommendations(r.rows),
                         calls |-> <<RecommendCall(scan.df_indices, scan.ratings,
                                                   TopKOf(data))>>]

-----------------------------------------------------------------------------
(* The uploaded playlist table.  A table is known by the upload whose rows  *)
(* it holds (src), its number of rows, its columns, and for each column    *)
(* the handler derives the upload from whose rows the column's values were *)
(* computed (0: the column is absent or still holds the file's own text).  *)

RequiredMoodCols == {"Danceability", "Energy", "Valence", "Acousticness", "Tempo"}

DerivedColumns == {"Added At", "Release Date", "Release Year", "Popularity Class", "Mood"}

FileColumns ==
    {"Track Name", "Duration (ms)", "Added At", "Release Date", "Popularity"}
    \cup RequiredMoodCols

\* `df = None`
NoData == [src |-> 0, rows |-> 0, columns |-> {}, duration_numeric |-> TRUE,
           from |-> [c \in DerivedColumns |-> 0]]

\* str.lower() on the strings the model uses
LowerOf ==
    ("CSV" :> "csv") @@ ("Csv" :> "csv") @@ ("TXT" :> "txt")
    @@ ("Valence" :> "valence") @@ ("Acousticness" :> "acousticness")
    @@ ("Danceability" :> "danceability") @@ ("Energy" :> "energy")
    @@ ("Instrumentalness" :> "instrumentalness") @@ ("Liveness" :> "liveness")
    @@ ("Loudness" :> "loudness") @@ ("Speechiness" :> "speechiness")
    @@ ("Tempo" :> "tempo") @@ ("TEMPO" :> "tempo") @@ ("Track Name" :> "track name")

ToLower(str) == IF str \in DOMAIN LowerOf THEN LowerOf[str] ELSE str

\* a file name is the sequence of its parts between dots; "" is <<>>
AllowedExtensions == {"csv"}

\* allowed_file(): `'.' in filename and filename.rsplit('.', 1)[1].lower() in ALLOWED_EXTENSIONS`
AllowedFile(filename) ==
    Len(filename) >= 2 /\ ToLower(filename[Len(filename)]) \in AllowedExtensions

\* the 'file' part of an upload request: parses = FALSE is a file pd.read_csv
\* raises on; duration_numeric = FALSE is text in the column `Duration (ms)`
CsvFile(id, rows, columns) ==
    [present |-> TRUE, filename |-> <<"playlist", "csv">>, id |-> id, parses |-> TRUE,
     rows |-> rows, columns |-> columns, duration_numeric |-> TRUE]

\* the upload requests of client id
FilesOf(id) ==
    LET full == CsvFile(id, 1, FileColumns) IN
    {CsvFile(id, n, FileColumns) : n \in 0..MaxRows}
    \cup {CsvFile(id, 1, {"Track Name", "Popularity"}),
          CsvFile(id, 1, FileColumns \ {"Tempo"}),
          [full EXCEPT !.duration_numeric = FALSE],
          [full EXCEPT !.parses = FALSE],
          [full EXCEPT !.filename = <<"playlist", "CSV">>],
          [full EXCEPT !.filename = <<"playlist", "txt">>],
          [full EXCEPT !.filename = <<"playlist">>],
          [full EXCEPT !.filename = <<>>],
          [full EXCEPT !.present = FALSE]}

\* pd.read_csv(file): a new table of the file's rows and columns
ReadCsv(file) ==
    [src |-> file.id, rows |-> file.rows, columns |-> file.columns,
     duration_numeric |-> file.duration_numeric,
     from |-> [c \in DerivedColumns |-> 0]]

\* `df[column] = series`, series computed from the rows of upload src
SetColumn(table, column, src) ==
    [table EXCEPT !.columns = @ \cup {column}, !.from[column] = src]

\* the series `table[column]`: the upload its values come from and its length
NoSeries == [src |-> 0, rows |-> 0]

Series(table, column) ==
    [src |-> IF column \in DerivedColumns /\ table.from[column] # 0
             THEN table.from[column] ELSE table.src,
     rows |-> table.rows]

NoFileError == ErrorResponse(400, "No file provided", "")
NoFileSelectedError == ErrorResponse(400, "No file selected", "")
InvalidFileTypeError == ErrorResponse(400, "Invalid file type. Only CSV files are allowed", "")
EmptyCsvError == ErrorResponse(400, "CSV file is empty", "")
UploadFailed(detail) == ErrorResponse(500, "Failed to process file", detail)

\* the response of a successful upload: 'rows' and 'columns' of the table
UploadedResponse(table) ==
    [status |-> 200, error |-> "", detail |-> "", songs |-> <<>>, total |-> 0,
     recommendations |-> <<>>, count |-> 0,
     rows |-> table.rows, columns |-> table.columns]

\* a run of upload_file(): its position, its file, the right-hand side it has
\* evaluated and not yet stored, and its response
UploadThread(file) ==
    [pc |-> "request", file |-> file, tmp |-> NoSeries, response |-> NoResponse]

\* one step of upload_file() by the run th on the global table: the run
\* afterwards and the global table afterwards.  Every statement reads the
\* global `df` anew.
UploadStep(th, table) ==
    LET Return(resp) == [th |-> [th EXCEPT !.pc = "done", !.response = resp],
                         df |-> table]
        Raise(name) == Return(UploadFailed(name))
        Jump(pc) == [th |-> [th EXCEPT !.pc = pc], df |-> table]
        Eval(column, pc) == [th |-> [th EXCEPT !.pc = pc, !.tmp = Series(table, column)],
                             df |-> table]
        Store(column, pc) == [th |-> [th EXCEPT !.pc = pc, !.tmp = NoSeries],
                              df |-> SetColumn(table, column, th.tmp.src)]
    IN  CASE th.pc = "request" ->
                IF ~th.file.present THEN Return(NoFileError)
                ELSE IF th.file.filename = <<>> THEN Return(NoFileSelectedError)
                ELSE IF AllowedFile(th.file.filename) THEN Jump("read_csv")
                ELSE Return(InvalidFileTypeError)
          [] th.pc = "read_csv" ->
                IF ~th.file.parses THEN Raise("EmptyDataError")
                ELSE [th |-> [th EXCEPT !.pc = "len"], df |-> ReadCsv(th.file)]
          [] th.pc = "len" ->
                IF table.rows = 0 THEN Return(EmptyCsvError) ELSE Jump("added_at")
          [] th.pc = "added_at" ->
                IF "Added At" \in table.columns THEN Jump("added_at_value")
                ELSE Jump("release_date")
          [] th.pc = "added_at_value" ->
                IF "Added At" \notin table.columns THEN Raise("KeyError")
                ELSE Eval("Added At", "added_at_store")
          [] th.pc = "added_at_store" -> Store("Added At", "release_date")
          [] th.pc = "release_date" ->
                IF "Release Date" \in table.columns THEN Jump("release_date_value")
                ELSE Jump("popularity")
          [] th.pc = "release_date_value" ->
                IF "Release Date" \notin table.columns THEN Raise("KeyError")
                ELSE Eval("Release Date", "release_date_store")
          [] th.pc = "release_date_store" -> Store("Release Date", "release_year_value")
          [] th.pc = "release_year_value" ->
                IF "Release Date" \notin table.columns THEN Raise("KeyError")
                ELSE IF table.from["Release Date"] = 0 THEN Raise("AttributeError")
                ELSE Eval("Release Date", "release_year_store")
          [] th.pc = "release_year_store" -> Store("Release Year", "popularity")
          [] th.pc = "popularity" ->
                IF "Popularity" \in table.columns THEN Jump("popularity_value")
                ELSE Jump("mood")
          [] th.pc = "popularity_value" ->
                IF "Popularity" \notin table.columns THEN Raise("KeyError")
                ELSE Eval("Popularity", "popularity_store")
          [] th.pc = "popularity_store" -> Store("Popularity Class", "mood")
          [] th.pc = "mood" ->
                IF RequiredMoodCols \subseteq table.columns THEN Jump("mood_rows")
                ELSE Jump("respond")
          [] th.pc = "mood_rows" ->
                IF ~(RequiredMoodCols \subseteq table.columns) THEN Raise("KeyError")
                ELSE Eval("Tempo", "mood_store")
          [] th.pc = "mood_store" ->
                IF th.tmp.rows # table.rows THEN Raise("ValueError")
                ELSE Store("Mood", "respond")
          [] th.pc = "respond" ->
                IF "Track Name" \in table.columns /\ table.rows = 0
                THEN Raise("IndexError")
                ELSE IF "Duration (ms)" \in table.columns /\ ~table.duration_numeric
                THEN Raise("ValueError")
                ELSE Return(UploadedResponse(table))
          [] OTHER -> [th |-> th, df |-> table]

RECURSIVE RunUpload(_, _)
\* the run th taken to its end with no other request interleaved
RunUpload(th, table) ==
    IF th.pc = "done" THEN [response |-> th.response, df |-> table]
    ELSE LET s == UploadStep(th, table) IN RunUpload(s.th, s.df)

\* upload_file() run from start to end on the global table
UploadFile(table, file) == RunUpload(UploadThread(file), table)

\* the table a complete upload of the file leaves behind
Processed(file) == UploadFile(NoData, file).df

-----------------------------------------------------------------------------
(* The analysis endpoints and the health check                             *)

NoDataError ==
    ErrorResponse(400, "No data loaded", "")
NoDataUploadFirstError ==
    ErrorResponse(400, "No data loaded. Upload a file first using POST /upload", "")
ColumnMissingError(column) == ErrorResponse(400, "column not found in your data", column)
InternalServerError == ErrorResponse(500, "Internal server error", "")

\* a successful analysis response: 'total_tracks' of the table it read
AnalysisResponse(table) ==
    [status |-> 200, error |-> "", detail |-> "", songs |-> <<>>, total |-> 0,
     recommendations |-> <<>>, count |-> 0,
     rows |-> table.rows, columns |-> table.columns]

\* get_stats(): reads the table; int(total_ms) raises outside any try block
\* when `Duration (ms)` holds text
GetStatsResponse(table) ==
    IF table = NoData THEN NoDataUploadFirstError
    ELSE IF "Duration (ms)" \in table.columns /\ ~table.duration_numeric
    THEN InternalServerError
    ELSE AnalysisResponse(table)

\* popularity_distribution(): the response and the global table afterwards
PopularityDistributionOutcome(table) ==
    IF table = NoData THEN [response |-> NoDataError, df |-> table]
    ELSE IF "Popularity Class" \notin table.columns
    THEN IF "Popularity" \notin table.columns
         THEN [response |-> ColumnMissingError("Popularity"), df |-> table]
         ELSE LET t == SetColumn(table, "Popularity Class", table.src)
              IN  [response |-> AnalysisResponse(t), df |-> t]
    ELSE [response |-> AnalysisResponse(table), df |-> table]

\* the other analysis endpoints, each with its answer to `df is None` and the
\* column it asks for first
AnalysisEndpoints ==
    {[endpoint |-> "top-artists", no_data |-> NoDataError, column |-> "Artist Name(s)"],
     [endpoint |-> "top-tracks", no_data |-> NoDataError, column |-> "Track Name"],
     [endpoint |-> "mood-distribution", no_data |-> NoDataUploadFirstError,
      column |-> "Mood"],
     [endpoint |-> "listening-age", no_data |-> NoDataError, column |-> "Release Year"],
     [endpoint |-> "playlist-age", no_data |-> NoDataError, column |-> "Added At"],
     [endpoint |-> "explicit-analysis", no_data |-> NoDataError, column |-> "Explicit"],
     [endpoint |-> "temporal-analysis", no_data |-> NoDataError, column |-> "Added At"]}

\* the endpoint e answering from a table that was never assigned
AnalysisOutcomeUnguarded(e, table) ==
    IF e.column \notin table.columns THEN ColumnMissingError(e.column)
    ELSE AnalysisResponse(table)

\* `if df is None` and the first column check of the endpoint e
AnalysisOutcome(e, table) ==
    IF table = NoData THEN e.no_data
    ELSE IF e.column \notin table.columns THEN ColumnMissingError(e.column)
    ELSE AnalysisResponse(table)

\* health_check()
HealthResponse(rec, table) ==
    [status |-> 200, error |-> "", detail |-> "healthy", songs |-> <<>>, total |-> 0,
     recommendations |-> <<>>, count |-> 0,
     user_data_loaded |-> table # NoData,
     user_data_rows |-> IF table # NoData THEN table.rows ELSE 0,
     recommender_loaded |-> rec.loaded,
     recommender_tracks |-> IF rec.loaded THEN CatalogSize(rec) ELSE 0]

-----------------------------------------------------------------------------
(* The offline build script backend/train_recommender.py.  The dataset at   *)
(* DATA_PATH is known by whether it exists, its column names, whether a    *)
(* feature value is missing in it and whether it has no rows.              *)

\* feature_cols
FeatureCols == <<"valence", "acousticness", "danceability", "energy",
                 "instrumentalness", "liveness", "loudness", "speechiness", "tempo">>

TitleCols == {"Valence", "Acousticness", "Danceability", "Energy",
              "Instrumentalness", "Liveness", "Loudness", "Speechiness", "Tempo"}

\* the column sets of the datasets: the nine features in lower case, in title
\* case, or in lower case with TEMPO in capitals, next to a name column, and
\* each of these with one column taken away
DatasetColumns ==
    LET bases == {Range(FeatureCols) \cup {"track name"},
                  TitleCols \cup {"Track Name"},
                  (Range(FeatureCols) \ {"tempo"}) \cup {"TEMPO", "track name"}}
    IN  bases \cup {b \ {c} : b \in bases, c \in UNION bases}

Datasets ==
    {[found |-> TRUE, columns |-> cols, has_nan |-> n, empty |-> e] :
        cols \in DatasetColumns, n \in BOOLEAN, e \in BOOLEAN}
    \cup {[found |-> FALSE, columns |-> {}, has_nan |-> FALSE, empty |-> FALSE]}

Artifacts == {"recommender_knn.pkl", "recommender_scaler.pkl", "recommender_data.pkl"}

\* a run of the script at position pc on the dataset csv
BuildStart(csv, pc) ==
    [pc |-> pc, csv |-> csv, columns |-> {}, has_nan |-> FALSE, missing_cols |-> <<>>,
     done |-> {}, artifacts |-> {}, exit_code |-> 0, error |-> ""]

\* `df.columns = df.columns.str.lower()`
LowerColumns(columns) == {ToLower(col) : col \in columns}

\* `missing_cols = [col for col in feature_cols if col not in df.columns]`
MissingCols(columns) == SelectSeq(FeatureCols, LAMBDA col : col \notin columns)

\* the script going on after the column check whatever it found
AfterCheckContinuing(missing_cols) == "extract"

\* `if missing_cols: ... sys.exit(1)`
AfterCheck(missing_cols) == IF missing_cols # <<>> THEN "exit" ELSE "extract"

\* the next statement of the script
BuildStep(b) ==
    LET Exit(error) == [b EXCEPT !.pc = "exit", !.exit_code = 1, !.error = error]
        Did(step, pc) == [b EXCEPT !.pc = pc, !.done = @ \cup {step}]
        Save(file, pc) == [b EXCEPT !.pc = pc, !.artifacts = @ \cup {file}]
    IN  CASE b.pc = "load" ->
                IF ~b.csv.found THEN Exit("not found")
                ELSE [b EXCEPT !.pc = "lower", !.columns = b.csv.columns,
                               !.has_nan = b.csv.has_nan]
          [] b.pc = "lower" ->
                [b EXCEPT !.pc = "check", !.columns = LowerColumns(b.columns)]
          [] b.pc = "check" ->
                LET missing_cols == MissingCols(b.columns)
                    pc == AfterCheck(missing_cols)
                IN  IF pc = "exit"
                    THEN [Exit("Missing columns") EXCEPT !.missing_cols = missing_cols,
                                                         !.done = @ \cup {"check"}]
                    ELSE [Did("check", pc) EXCEPT !.missing_cols = missing_cols]
          [] b.pc = "extract" ->
                IF ~(Range(FeatureCols) \subseteq b.columns) THEN Exit("KeyError")
                ELSE [b EXCEPT !.pc = "fillna"]
          [] b.pc = "fillna" -> [Did("fillna", "scale") EXCEPT !.has_nan = FALSE]
          [] b.pc = "scale" ->
                IF b.csv.empty THEN Exit("ValueError") ELSE Did("scale", "fit")
          [] b.pc = "fit" -> Did("fit", "save_knn")
          [] b.pc = "save_knn" -> Save("recommender_knn.pkl", "save_scaler")
          [] b.pc = "save_scaler" -> Save("recommender_scaler.pkl", "save_data")
          [] b.pc = "save_data" ->
                [Save("recommender_data.pkl", "exit") EXCEPT !.exit_code = 0]
          [] OTHER -> b

-----------------------------------------------------------------------------
(* The requests the model sends *)

Window(o) == [i \in 1..RequiredRatings |-> o + i - 1]

\* ten identifiers: a window of consecutive rows, or ten times row 3
IdLists == {Window(o) : o \in -1..MaxOffset} \cup {[i \in 1..RequiredRatings |-> 3]}

\* ten rating values: a base star value everywhere, and optionally any JSON
\* value at the first or the last position
RatingLists ==
    {[i \in 1..RequiredRatings |-> Num(b)] : b \in MinRating..MaxRating}
    \cup {[i \in 1..RequiredRatings |-> IF i = p THEN rv ELSE Num(b)] :
             b \in MinRating..MaxRating, p \in {1, RequiredRatings}, rv \in RatingValues}

Items(ids, rs) == [i \in 1..RequiredRatings |-> Item(ids[i], rs[i])]

\* the shapes of a ratings array: ten well-formed items, nine, eleven, none,
\* and ten with one malformed item at the first or the last position
Shapes ==
    {[shape |-> sh, pos |-> 0] : sh \in {"ten", "nine", "eleven", "empty"}}
    \cup {[shape |-> sh, pos |-> p] :
             sh \in {"no_df_index", "no_rating", "not_dict"}, p \in {1, RequiredRatings}}

ItemList(ids, rs, sh) ==
    LET items == Items(ids, rs) IN
    CASE sh.shape = "ten" -> items
      [] sh.shape = "nine" -> SubSeq(items, 1, RequiredRatings - 1)
      [] sh.shape = "eleven" -> Append(items, items[1])
      [] sh.shape = "empty" -> <<>>
      [] sh.shape = "no_df_index" -> [items EXCEPT ![sh.pos] = ItemNoIndex(rs[sh.pos])]
      [] sh.shape = "no_rating" -> [items EXCEPT ![sh.pos] = ItemNoRating(ids[sh.pos])]
      [] OTHER -> [items EXCEPT ![sh.pos] = ItemNotDict]

\* top_k of a request: omitted, or an integer of -1 .. MaxTopK
TopKs == {[has_top_k |-> FALSE, top_k |-> 0]}
         \cup {[has_top_k |-> TRUE, top_k |-> k] : k \in -1..MaxTopK}

\* bodies without a usable ratings array: no body, no 'ratings' key, not a list
MalformedBodies ==
    {NoBody, Body(FALSE, FALSE, <<>>, FALSE, 0), Body(FALSE, FALSE, <<>>, TRUE, 1),
     Body(TRUE, FALSE, <<>>, FALSE, 0)}

-----------------------------------------------------------------------------
(* The state machine *)

SampleRequest == [endpoint |-> "start-rating-session", data |-> NoBody]

SubmitRequest(data) == [endpoint |-> "submit-ratings-and-recommend", data |-> data]

UploadRequest == [endpoint |-> "upload", data |-> NoBody]

GetRequest(endpoint) == [endpoint |-> endpoint, data |-> NoBody]

NoRequest == [endpoint |-> "", data |-> NoBody]

\* the taste point W / S of a recommender call; S = 0 when there is none
NoTastePoint == [S |-> 0, W |-> 0]

\* no recommend request handled so far
NoFirst == [seen |-> FALSE, data |-> NoBody, taste |-> NoTastePoint,
            response |-> NoResponse]

\* no upload request in progress
NoThreads == <<>>

\* the build script not run
NoBuild == BuildStart([found |-> FALSE, columns |-> {}, has_nan |-> FALSE,
                       empty |-> FALSE], "not_run")

\* st.session_state of the rating page before its first run: the defaults the
\* page sets.  songs_to_rate = <<>> and recommendations = NoResponse are None,
\* user_ratings = <<>> is the empty dict.
NoSession ==
    [rating_phase |-> TRUE, current_song_index |-> 0, songs_to_rate |-> <<>>,
     user_ratings |-> <<>>, recommendations |-> NoResponse, current_rating |-> 0,
     exception |-> ""]

\* the serving layer before its first request: no table uploaded, nothing observed
ServerStart ==
    /\ request = NoRequest
    /\ response = NoResponse
    /\ rec_calls = <<>>
    /\ df = NoData
    /\ first = NoFirst
    /\ sampled = {}

\* module start-up: SpotifyMusicRecommender.load_model either returns the
\* recommender or raises, which leaves recommender = None
Init ==
    /\ recommender \in {None} \cup {Loaded(c) : c \in Catalogs}
    /\ ServerStart
    /\ uploads = NoThreads
    /\ build = NoBuild
    /\ session_state = NoSession

\* requests are handled one at a time: a handler runs when no response is pending
Idle == request = NoRequest

\* start_rating_session(): the handler's effect on the serving layer
StartRatingSessionHandler ==
    /\ Idle
    /\ request' = SampleRequest
    /\ IF ModelNotLoaded(recommender)
       THEN /\ response' = ModelNotLoadedError
            /\ rec_calls' = <<>>
       ELSE /\ rec_calls' = <<RandomSongsCall(SampleSize)>>
            /\ IF ~recommender.loaded
               THEN response' = RandomSongsFailed("AttributeError")
               ELSE \E sample \in RandomSamples(recommender, SampleSize) :
                        response' = SongsResponse(FormatSongs(sample))
    /\ UNCHANGED <<recommender, df>>

\* GET /start-rating-session
StartRatingSession ==
    /\ StartRatingSessionHandler
    /\ UNCHANGED <<first, sampled>>
    /\ UNCHANGED outside

\* POST /submit-ratings-and-recommend
Handle(data) ==
    LET out == SubmitRatingsAndRecommend(recommender, data) IN
    /\ request' = SubmitRequest(data)
    /\ response' = out.response
    /\ rec_calls' = out.calls
    /\ UNCHANGED <<recommender, df>>

SubmitRatings ==
    /\ Idle
    /\ \/ \E data \in MalformedBodies : Handle(data)
       \/ \E ids \in IdLists, rs \in RatingLists, sh \in Shapes, k \in TopKs :
              Handle(Body(TRUE, TRUE, ItemList(ids, rs, sh), k.has_top_k, k.top_k))
    /\ UNCHANGED <<first, sampled>>
    /\ UNCHANGED outside

\* the response is sent to the caller and the request ends
Deliver ==
    /\ ~Idle
    /\ request' = NoRequest
    /\ response' = NoResponse
    /\ rec_calls' = <<>>
    /\ UNCHANGED <<recommender, df, first, sampled>>
    /\ UNCHANGED outside

Next == StartRatingSession \/ SubmitRatings \/ Deliver

Spec == Init /\ [][Next]_vars

-----------------------------------------------------------------------------
(* The whole serving layer, one request at a time: the recommendation       *)
(* endpoints with a few fixed request bodies, the upload and the endpoints *)
(* that read the uploaded table.                                           *)

\* ten identifiers of a recommend request sent more than once
ProbeIdLists == {Window(0), Window(2), [i \in 1..RequiredRatings |-> 3]}

\* its ratings: one track rated MaxRating, the others all MinRating or all 3
ProbeRatingLists ==
    {[i \in 1..RequiredRatings |-> Num(IF i = p THEN MaxRating ELSE b)] :
        b \in {MinRating, 3}, p \in {1, RequiredRatings}}

ProbeTopKs == {[has_top_k |-> FALSE, top_k |-> 0], [has_top_k |-> TRUE, top_k |-> 2]}

\* the taste point of the recommender call a handler run made
TastePointOf(rec, calls) ==
    IF calls # <<>> /\ rec.loaded /\ Range(calls[1].rated_indices) \subseteq RowIds(rec)
    THEN [S |-> TasteWeight(calls[1].ratings),
          W |-> TasteMoment(rec, calls[1].rated_indices, calls[1].ratings)]
    ELSE NoTastePoint

InitServer ==
    /\ recommender \in {None, Loaded(CatalogTen), Loaded(CatalogTwelve)}
    /\ ServerStart
    /\ uploads = NoThreads
    /\ build = NoBuild
    /\ session_state = NoSession

\* POST /submit-ratings-and-recommend with one of the fixed bodies; the first
\* such request is remembered with its taste point and its response
Recommend ==
    /\ Idle
    /\ \E ids \in ProbeIdLists, rs \in ProbeRatingLists, k \in ProbeTopKs :
          Handle(Body(TRUE, TRUE, Items(ids, rs), k.has_top_k, k.top_k))
    /\ first' = IF first.seen THEN first
                ELSE [seen |-> TRUE, data |-> request'.data,
                      taste |-> TastePointOf(recommender', rec_calls'),
                      response |-> response']
    /\ UNCHANGED sampled
    /\ UNCHANGED outside

\* the model loaded again from the artifacts of a ten-row catalog
UploadReloadingModel ==
    /\ Idle
    /\ \E id \in 1..2 : \E file \in FilesOf(id) :
          LET out == UploadFile(df, file) IN
          /\ df' = out.df
          /\ response' = out.response
    /\ request' = UploadRequest
    /\ rec_calls' = <<>>
    /\ recommender' = IF recommender.loaded THEN Loaded(CatalogTen) ELSE recommender
    /\ UNCHANGED <<first, sampled>>
    /\ UNCHANGED outside

\* POST /upload, handled with no other request interleaved
Upload ==
    /\ Idle
    /\ \E id \in 1..2 : \E file \in FilesOf(id) :
          LET out == UploadFile(df, file) IN
          /\ df' = out.df
          /\ response' = out.response
    /\ request' = UploadRequest
    /\ rec_calls' = <<>>
    /\ UNCHANGED <<recommender, first, sampled>>
    /\ UNCHANGED outside

\* GET /stats
GetStats ==
    /\ Idle
    /\ request' = GetRequest("stats")
    /\ response' = GetStatsResponse(df)
    /\ rec_calls' = <<>>
    /\ UNCHANGED <<recommender, df, first, sampled>>
    /\ UNCHANGED outside

\* GET /popularity-distribution
PopularityDistribution ==
    /\ Idle
    /\ request' = GetRequest("popularity-distribution")
    /\ response' = PopularityDistributionOutcome(df).response
    /\ df' = PopularityDistributionOutcome(df).df
    /\ rec_calls' = <<>>
    /\ UNCHANGED <<recommender, first, sampled>>
    /\ UNCHANGED outside

\* GET of one of the other analysis endpoints
GetAnalysis ==
    /\ Idle
    /\ \E e \in AnalysisEndpoints :
          /\ request' = GetRequest(e.endpoint)
          /\ response' = AnalysisOutcome(e, df)
    /\ rec_calls' = <<>>
    /\ UNCHANGED <<recommender, df, first, sampled>>
    /\ UNCHANGED outside

\* the health check answering without looking at the model
HealthCheckClearingModel ==
    /\ Idle
    /\ request' = GetRequest("health")
    /\ response' = HealthResponse(None, df)
    /\ rec_calls' = <<>>
    /\ recommender' = None
    /\ UNCHANGED <<df, first, sampled>>
    /\ UNCHANGED outside

\* GET /health
HealthCheck ==
    /\ Idle
    /\ request' = GetRequest("health")
    /\ response' = HealthResponse(recommender, df)
    /\ rec_calls' = <<>>
    /\ UNCHANGED <<recommender, df, first, sampled>>
    /\ UNCHANGED outside

NextServer ==
    \/ StartRatingSession
    \/ Recommend
    \/ Upload
    \/ GetStats
    \/ PopularityDistribution
    \/ GetAnalysis
    \/ HealthCheck
    \/ Deliver

SpecServer == InitServer /\ [][NextServer]_vars

-----------------------------------------------------------------------------
(* A rating session seen from the server: sample requests and recommend     *)
(* requests in any order, with the identifiers that the sample responses   *)
(* have returned so far kept as history.                                   *)

\* the identifiers a response's songs carry
SongIds(resp) == {resp.songs[i].df_index : i \in 1..Len(resp.songs)}

InitSession ==
    /\ recommender \in {None, Loaded(CatalogTen), Loaded(CatalogTwelve)}
    /\ ServerStart
    /\ uploads = NoThreads
    /\ build = NoBuild
    /\ session_state = NoSession

\* GET /start-rating-session; the identifiers returned are remembered
SessionSample ==
    /\ StartRatingSessionHandler
    /\ sampled' = sampled \cup SongIds(response')
    /\ UNCHANGED first
    /\ UNCHANGED outside

\* POST /submit-ratings-and-recommend; the handler keeps no record of samples
SessionRecommend ==
    /\ Idle
    /\ \E ids \in ProbeIdLists, rs \in ProbeRatingLists, k \in ProbeTopKs :
          Handle(Body(TRUE, TRUE, Items(ids, rs), k.has_top_k, k.top_k))
    /\ UNCHANGED <<first, sampled>>
    /\ UNCHANGED outside

NextSession == SessionSample \/ SessionRecommend \/ Deliver

SpecSession == InitSession /\ [][NextSession]_vars

-----------------------------------------------------------------------------
(* Two /upload requests handled at once.  app.run serves each request on   *)
(* its own thread; a thread can be preempted between any two statements    *)
(* of upload_file(), and between the evaluation of a right-hand side and   *)
(* the assignment that stores it.                                          *)

Threads == {1, 2}

InitUpload ==
    /\ recommender = None
    /\ ServerStart
    /\ \E f1 \in FilesOf(1), f2 \in FilesOf(2) :
          uploads = <<UploadThread(f1), UploadThread(f2)>>
    /\ build = NoBuild
    /\ session_state = NoSession

\* the next statement of the upload request served by thread t
UploadStatement(t) ==
    /\ uploads[t].pc # "done"
    /\ LET s == UploadStep(uploads[t], df) IN
          /\ uploads' = [uploads EXCEPT ![t] = s.th]
          /\ df' = s.df
    /\ UNCHANGED <<recommender, request, response, rec_calls, first, sampled>>
    /\ UNCHANGED <<build, session_state>>

NextUpload == UploadStatement(1) \/ UploadStatement(2)

SpecUpload == InitUpload /\ [][NextUpload]_vars

-----------------------------------------------------------------------------
(* One run of the build script on some dataset *)

InitBuild ==
    /\ recommender = None
    /\ ServerStart
    /\ uploads = NoThreads
    /\ build \in {BuildStart(csv, "load") : csv \in Datasets}
    /\ session_state = NoSession

\* the script runs its next statement
TrainRecommender ==
    /\ build.pc \notin {"not_run", "exit"}
    /\ build' = BuildStep(build)
    /\ UNCHANGED <<recommender, request, response, rec_calls, df, first, sampled>>
    /\ UNCHANGED <<uploads, session_state>>

NextBuild == TrainRecommender

SpecBuild == InitBuild /\ [][NextBuild]_vars

-----------------------------------------------------------------------------
(* The rating page frontend/pages/recommendations_page.py.  Every click     *)
(* reruns the script once with the clicked button returning True; a button *)
(* can be clicked when the last run rendered it and did not disable it.    *)
(* request and response hold the API exchange of the run, if it made one.  *)

\* the star buttons the user clicks
StarsClicked == {MinRating, MaxRating}

\* the samples the server answers the page with: rows in catalog order
PageSamples(rec) ==
    {sample \in RandomSamples(rec, SampleSize) :
        \E o \in 0..MaxOffset : sample = Window(o)}

\* an error status taken for a result
MakeRequestAnyStatus(resp) == resp

\* _make_request(): the JSON of a 200 response, None (NoResponse) otherwise
MakeRequest(resp) == IF resp.status = 200 THEN resp ELSE NoResponse

\* `user_ratings[key] = value`
Put(dict, key, value) ==
    [k \in DOMAIN dict \cup {key} |-> IF k = key THEN value ELSE dict[k]]

\* a song with no stored rating shown with the rating of the song before it
StoredRatingCarriedOver(dict, idx) ==
    IF idx \in DOMAIN dict THEN dict[idx].rating
    ELSE IF idx - 1 \in DOMAIN dict THEN dict[idx - 1].rating
    ELSE 0

\* the rating under the song shown after a move to index idx
StoredRating(dict, idx) == IF idx \in DOMAIN dict THEN dict[idx].rating ELSE 0

\* the entry the page stores for the song it shows
CurrentEntry(ss) ==
    [df_index |-> ss.songs_to_rate[ss.current_song_index + 1].df_index,
     rating |-> ss.current_rating]

\* the rating stored whatever it is
PreviousSavesAlways(ss) == Put(ss.user_ratings, ss.current_song_index, CurrentEntry(ss))

\* Previous: `if st.session_state.current_rating > 0: user_ratings[current_idx] = ...`
PreviousSaves(ss) ==
    IF ss.current_rating > 0
    THEN Put(ss.user_ratings, ss.current_song_index, CurrentEntry(ss))
    ELSE ss.user_ratings

\* the rating not stored
NextSavesNothing(ss) == ss.user_ratings

\* Next: `user_ratings[current_idx] = {...}`
NextSaves(ss) == Put(ss.user_ratings, ss.current_song_index, CurrentEntry(ss))

\* `can_proceed = st.session_state.current_rating > 0`
CanProceed(ss) == ss.current_rating > 0

\* the last song is never recognised
IsLastSongNever(ss) == FALSE

\* `is_last_song = current_idx == len(songs) - 1`
IsLastSong(ss) == ss.current_song_index = Len(ss.songs_to_rate) - 1

\* the page keeps the songs it showed
ResetSessionKeepingSongs(ss) ==
    [ss EXCEPT !.rating_phase = TRUE,
               !.current_song_index = 0,
               !.user_ratings = <<>>,
               !.recommendations = NoResponse,
               !.current_rating = 0]

\* reset_session()
ResetSession(ss) ==
    [ss EXCEPT !.rating_phase = TRUE,
               !.current_song_index = 0,
               !.songs_to_rate = <<>>,
               !.user_ratings = <<>>,
               !.recommendations = NoResponse,
               !.current_rating = 0]

\* submit_ratings(): `ratings_list = [user_ratings[i] for i in range(len(songs_to_rate))]`
RatingsList(ss) ==
    [i \in 1..Len(ss.songs_to_rate) |->
        Item(ss.user_ratings[i - 1].df_index, Num(ss.user_ratings[i - 1].rating))]

\* the page is in the rating phase with songs on display
SongsShown == session_state.rating_phase /\ session_state.songs_to_rate # <<>>

\* a run of the page that makes no API call
NoExchange ==
    /\ request' = NoRequest
    /\ response' = NoResponse
    /\ rec_calls' = <<>>

InitPage ==
    /\ recommender \in {None, Loaded(CatalogTen), Loaded(CatalogTwelve)}
    /\ ServerStart
    /\ uploads = NoThreads
    /\ build = NoBuild
    /\ session_state = NoSession

\* a run in the rating phase with no songs: load_songs_to_rate()
LoadSongsToRate ==
    /\ session_state.rating_phase /\ session_state.songs_to_rate = <<>>
    /\ request' = SampleRequest
    /\ \/ /\ ModelNotLoaded(recommender)
          /\ response' = ModelNotLoadedError
          /\ rec_calls' = <<>>
       \/ /\ ~ModelNotLoaded(recommender)
          /\ rec_calls' = <<RandomSongsCall(SampleSize)>>
          /\ \E sample \in PageSamples(recommender) :
                response' = SongsResponse(FormatSongs(sample))
       \/ \* the server cannot be reached
          /\ response' = NoResponse
          /\ rec_calls' = <<>>
    /\ LET data == MakeRequest(response') IN
          session_state' =
              IF data # NoResponse
              THEN [session_state EXCEPT !.songs_to_rate = data.songs,
                                         !.current_song_index = 0,
                                         !.user_ratings = <<>>,
                                         !.exception = ""]
              ELSE [session_state EXCEPT !.exception = ""]
    /\ UNCHANGED <<recommender, df, first, sampled, uploads, build>>

\* a click on star i: render_star_rating()
ClickStar ==
    /\ SongsShown
    /\ \E i \in StarsClicked :
          session_state' = [session_state EXCEPT !.current_rating = i, !.exception = ""]
    /\ NoExchange
    /\ UNCHANGED <<recommender, df, first, sampled, uploads, build>>

\* a click on Previous
ClickPrevious ==
    /\ SongsShown
    /\ session_state.current_song_index > 0
    /\ LET saved == PreviousSaves(session_state)
           prev_idx == session_state.current_song_index - 1
       IN  session_state' =
               [session_state EXCEPT !.user_ratings = saved,
                                     !.current_song_index = prev_idx,
                                     !.current_rating = StoredRating(saved, prev_idx),
                                     !.exception = ""]
    /\ NoExchange
    /\ UNCHANGED <<recommender, df, first, sampled, uploads, build>>

\* a click on Next Song, on a song that is not the last one
ClickNext ==
    /\ SongsShown
    /\ CanProceed(session_state)
    /\ ~IsLastSong(session_state)
    /\ LET saved == NextSaves(session_state)
           next_idx == session_state.current_song_index + 1
       IN  session_state' =
               [session_state EXCEPT !.user_ratings = saved,
                                     !.current_song_index = next_idx,
                                     !.current_rating = StoredRating(saved, next_idx),
                                     !.exception = ""]
    /\ NoExchange
    /\ UNCHANGED <<recommender, df, first, sampled, uploads, build>>

\* a click on Get Recommendations on the last song: the rating is stored and
\* submit_ratings() runs
ClickGetRecommendations ==
    /\ SongsShown
    /\ CanProceed(session_state)
    /\ IsLastSong(session_state)
    /\ LET saved == [session_state EXCEPT !.user_ratings = NextSaves(session_state),
                                          !.exception = ""]
       IN  IF \E i \in 1..Len(saved.songs_to_rate) : (i - 1) \notin DOMAIN saved.user_ratings
           THEN /\ session_state' = [saved EXCEPT !.exception = "KeyError"]
                /\ NoExchange
           ELSE LET data == Body(TRUE, TRUE, RatingsList(saved), TRUE, DefaultTopK)
                    out == SubmitRatingsAndRecommend(recommender, data)
                IN  /\ request' = SubmitRequest(data)
                    /\ \/ /\ response' = out.response
                          /\ rec_calls' = out.calls
                       \/ \* the server cannot be reached
                          /\ response' = NoResponse
                          /\ rec_calls' = <<>>
                    /\ session_state' =
                          IF MakeRequest(response') # NoResponse
                          THEN [saved EXCEPT !.recommendations = MakeRequest(response'),
                                             !.rating_phase = FALSE]
                          ELSE saved
    /\ UNCHANGED <<recommender, df, first, sampled, uploads, build>>

\* a click on Rate New Songs: reset_session()
ClickStartOver ==
    /\ ~session_state.rating_phase
    /\ session_state.recommendations # NoResponse
    /\ session_state' = [ResetSession(session_state) EXCEPT !.exception = ""]
    /\ NoExchange
    /\ UNCHANGED <<recommender, df, first, sampled, uploads, build>>

NextPage ==
    \/ LoadSongsToRate
    \/ ClickStar
    \/ ClickPrevious
    \/ ClickNext
    \/ ClickGetRecommendations
    \/ ClickStartOver

SpecPage == InitPage /\ [][NextPage]_vars

\* The page in the hands of a user who rates the song on display and goes on
\* with Next Song / Get Recommendations, never back.
NextRatingFlow ==
    \/ LoadSongsToRate
    \/ ClickStar
    \/ ClickNext
    \/ ClickGetRecommendations
    \/ ClickStartOver

\* the model has more tracks than a sample rates, so that a recommend request
\* for a rated sample has candidates
RecommendCanSucceed == recommender.loaded /\ CatalogSize(recommender) > SampleSize

\* Get Recommendations can be clicked and the server has an answer to give
SubmitPossible ==
    /\ SongsShown
    /\ CanProceed(session_state)
    /\ IsLastSong(session_state)
    /\ RecommendCanSucceed

\* weak fairness of the clicks on Get Recommendations that the server answers
\* with 200, with their enabling condition written out
SubmitAnsweredInTheEnd ==
    \/ []<>~SubmitPossible
    \/ []<><<request'.endpoint = "submit-ratings-and-recommend"
               /\ response'.status = 200>>_vars

\* main() runs load_songs_to_rate() in every run without songs, and st.rerun()
\* starts that run after a reset; the user keeps clicking stars and Next; a
\* recommend request that can be answered is answered in the end.
SpecRatingFlow ==
    /\ InitPage
    /\ [][NextRatingFlow]_vars
    /\ WF_vars(LoadSongsToRate)
    /\ WF_vars(ClickStar)
    /\ WF_vars(ClickNext)
    /\ SubmitAnsweredInTheEnd

-----------------------------------------------------------------------------
(* Vocabulary of the properties *)

IsSubmit == request.endpoint = "submit-ratings-and-recommend"

IsSample == request.endpoint = "start-rating-session"

\* the request carries a ratings array (a JSON list)
HasRatingsList == IsSubmit /\ request.data.body /\ request.data.has_ratings
                  /\ request.data.is_list

RequestItems == request.data.items

\* the response is an error response: an error status, a message, no payload
IsError(resp) ==
    /\ resp.status \in {400, 500}
    /\ resp.error # ""
    /\ resp.recommendations = <<>>
    /\ resp.songs = <<>>

\* the response is a recommendation list
IsRecommendationList(resp) == resp.status = 200 /\ resp.error = ""

\* the identifiers the request rates
RequestedIds ==
    {RequestItems[i].df_index :
        i \in {j \in 1..Len(RequestItems) :
                  RequestItems[j].kind = "dict" /\ RequestItems[j].has_df_index}}

\* K of the request: top_k, 10 when omitted
RequestedK == IF request.data.has_top_k THEN request.data.top_k ELSE 10

\* ten well-formed items with resolvable identifiers and star values in [1, 5]
WellFormedRatings ==
    /\ HasRatingsList
    /\ Len(RequestItems) = 10
    /\ \A i \in 1..Len(RequestItems) :
          /\ RequestItems[i].kind = "dict"
          /\ RequestItems[i].has_df_index /\ RequestItems[i].has_rating
          /\ RequestItems[i].df_index \in RowIds(recommender)
          /\ RequestItems[i].rating.t \in {"num", "bool"}
          /\ RequestItems[i].rating.v \in 1..5

-----------------------------------------------------------------------------
(* C1: a recommend request whose ratings list does not hold exactly ten     *)
(* items is answered with an error response, and the recommender is not    *)
(* invoked for it.                                                         *)
C1_WrongCountRejected ==
    (HasRatingsList /\ Len(RequestItems) # 10)
        => (IsError(response) /\ rec_calls = <<>>)

C1_Witness ==
    /\ recommender.loaded
    /\ HasRatingsList /\ Len(RequestItems) = 11
    /\ response = RatingsFormatError
    /\ rec_calls = <<>>

(* C2: a recommend request with a rating value outside [1, 5] is rejected  *)
(* with an error, and every rating value that reaches                      *)
(* recommend_from_ratings is a number in [1, 5].                           *)
C2_OnlyRatingsInRangeReachRecommender ==
    /\ (HasRatingsList
        /\ \E i \in 1..Len(RequestItems) :
              /\ RequestItems[i].kind = "dict" /\ RequestItems[i].has_rating
              /\ ~NumericInRange(RequestItems[i].rating))
          => IsError(response)
    /\ \A c \in 1..Len(rec_calls) :
          \A i \in 1..Len(rec_calls[c].ratings) :
              /\ rec_calls[c].ratings[i].t \in {"num", "bool"}
              /\ rec_calls[c].ratings[i].v >= 1
              /\ rec_calls[c].ratings[i].v <= 5

(* C3: a recommend request with top_k <= 0 is answered with an error; when *)
(* nothing else is wrong with the request the error names the non-positive *)
(* result count; when top_k is omitted the recommender is asked for 10.    *)
C3_NonPositiveTopKRejected ==
    /\ (IsSubmit /\ request.data.has_top_k /\ request.data.top_k <= 0)
          => /\ IsError(response)
             /\ (recommender.loaded /\ WellFormedRatings)
                   => response = RecommendationFailed("non-positive result count")
    /\ (IsSubmit /\ ~request.data.has_top_k)
          => \A c \in 1..Len(rec_calls) : rec_calls[c].n = 10

C3_Witness ==
    /\ recommender.loaded /\ WellFormedRatings
    /\ request.data.has_top_k /\ request.data.top_k = 0
    /\ response = RecommendationFailed("non-positive result count")

(* C4: a recommend request in which an identifier does not resolve to a    *)
(* row of the loaded catalog is answered with an error response, never     *)
(* with a recommendation list.                                             *)
C4_UnresolvableIdRejected ==
    (HasRatingsList /\ \E id \in RequestedIds : id \notin RowIds(recommender))
        => (IsError(response) /\ ~IsRecommendationList(response))

C4_Witness ==
    /\ recommender.loaded
    /\ HasRatingsList /\ Len(RequestItems) = 10
    /\ \A i \in 1..10 : NumericInRange(RequestItems[i].rating)
    /\ CatalogSize(recommender) \in RequestedIds
    /\ response = RecommendationFailed("unresolvable identifier")

(* C5: when the recommender failed to load (recommender = None) it stays   *)
(* None, and every sample request and every recommend request is answered  *)
(* with the 'Recommender model not loaded' error without a call of a       *)
(* recommender method.                                                     *)
C5_MissingModelReported ==
    [][recommender = None
          => /\ recommender' = None
             /\ request' # NoRequest
                   => (response' = ModelNotLoadedError /\ rec_calls' = <<>>)]_vars

C5_Witness ==
    /\ recommender = None
    /\ HasRatingsList /\ Len(RequestItems) = 10
    /\ response = ModelNotLoadedError
    /\ rec_calls = <<>>

-----------------------------------------------------------------------------
(* The taste point of the request and the distances from it, for the       *)
(* properties of a recommendation list                                     *)

RequestIdSeq == [i \in 1..Len(RequestItems) |-> RequestItems[i].df_index]

RequestRatingSeq == [i \in 1..Len(RequestItems) |-> RequestItems[i].rating]

\* S times the distance of row x from the request's taste point
RequestDistance(x) ==
    Distance(recommender, x, TasteWeight(RequestRatingSeq),
             TasteMoment(recommender, RequestIdSeq, RequestRatingSeq))

\* the rows that were not rated
Candidates == RowIds(recommender) \ RequestedIds

Returned == response.recommendations

ReturnedTracks == {Returned[i].track : i \in 1..Len(Returned)}

IsRecommendResult == IsSubmit /\ IsRecommendationList(response)

(* C6: no track of a recommendation result is among the identifiers the    *)
(* request rated.                                                          *)
C6_RatedTracksExcluded ==
    IsRecommendResult
        => \A i \in 1..Len(Returned) : Returned[i].track \notin RequestedIds

C6_Witness ==
    /\ IsRecommendResult
    /\ Cardinality(RequestedIds) = 10
    /\ Len(Returned) >= 2
    /\ \E id \in RequestedIds : id > 9

(* C7: when no candidate remains after the rated tracks are excluded the   *)
(* response is the 'Could not generate recommendations' error; a           *)
(* successful response never carries an empty list; the empty-result error *)
(* is given only to requests that pass validation and differs from every   *)
(* validation error response.                                              *)
C7_EmptyResultReported ==
    /\ IsRecommendResult => (Len(Returned) >= 1 /\ response.count >= 1)
    /\ (recommender.loaded /\ WellFormedRatings /\ RequestedK >= 1 /\ Candidates = {})
          => response = EmptyResultError
    /\ response = EmptyResultError
          => (WellFormedRatings /\ RequestedK >= 1 /\ Candidates = {})
    /\ EmptyResultError \notin ValidationErrors
    /\ \A d \in {"TypeError", "rating count is not ten", "unresolvable identifier",
                 "rating outside [1, 5]", "non-positive result count"} :
          EmptyResultError # RecommendationFailed(d)

C7_Witness ==
    /\ WellFormedRatings
    /\ Candidates = {}
    /\ response = EmptyResultError

(* C8: the similarity scores of a recommend response are non-increasing    *)
(* along the returned sequence.                                            *)
C8_ScoresNonIncreasing ==
    IsRecommendResult
        => \A i, j \in 1..Len(Returned) :
              i < j => Returned[i].similarity_score >= Returned[j].similarity_score

C8_Witness ==
    /\ IsRecommendResult
    /\ Len(Returned) >= 3
    /\ Returned[1].similarity_score > Returned[2].similarity_score
    /\ Returned[2].similarity_score > Returned[3].similarity_score

C10_FirstKNearestCandidates ==
    IsRecommendResult
        => /\ Len(Returned) <= RequestedK
           /\ response.count = Len(Returned)
           /\ ReturnedTracks \subseteq Candidates
           /\ \A i, j \in 1..Len(Returned) :
                 i < j => /\ Returned[i].track # Returned[j].track
                          /\ RequestDistance(Returned[i].track)
                                <= RequestDistance(Returned[j].track)
           /\ \A x \in Candidates \ ReturnedTracks :
                 /\ Len(Returned) = RequestedK
                 /\ \A t \in ReturnedTracks : RequestDistance(t) <= RequestDistance(x)

C10_Witness ==
    /\ IsRecommendResult
    /\ RequestedK = 2
    /\ Len(Returned) = 2
    /\ Cardinality(Candidates) = 4

-----------------------------------------------------------------------------
(* The taste point the Rating Aggregator computes from the call's          *)
(* arguments, against the unweighted centroid of the rated vectors         *)

\* one item is rated 5 and the other nine are rated 1
OneFiveNineOnes ==
    /\ WellFormedRatings
    /\ Cardinality({i \in 1..10 : RequestItems[i].rating.v = 5}) = 1
    /\ Cardinality({i \in 1..10 : RequestItems[i].rating.v = 1}) = 9

\* the feature vector of the track rated 5
FiveRatedVector ==
    FeatureOf(recommender,
              RequestItems[CHOOSE i \in 1..10 : RequestItems[i].rating.v = 5].df_index)

\* the sum of the ten rated vectors: ten times the unweighted centroid
UnweightedSum ==
    SeqSum([i \in 1..10 |-> FeatureOf(recommender, RequestItems[i].df_index)])

\* S and W of the taste point W / S computed from the arguments of the call
CallWeight == TasteWeight(rec_calls[1].ratings)
CallMoment == TasteMoment(recommender, rec_calls[1].rated_indices, rec_calls[1].ratings)

\* |v - W/S| < |v - U/10| and |v - W/S| = |v - U/10|, cross-multiplied
TastePointCloser ==
    10 * Abs(FiveRatedVector * CallWeight - CallMoment)
        < CallWeight * Abs(10 * FiveRatedVector - UnweightedSum)
TastePointAsClose ==
    10 * Abs(FiveRatedVector * CallWeight - CallMoment)
        = CallWeight * Abs(10 * FiveRatedVector - UnweightedSum)

(* C12 as stated: for any ten rated tracks with one rated 5 and nine rated *)
(* 1, the taste point is strictly closer to the 5-rated track's vector     *)
(* than the unweighted centroid of the ten vectors is.                     *)
C12_Original_AlwaysStrictlyCloser ==
    (OneFiveNineOnes /\ rec_calls # <<>>) => TastePointCloser

(* C12 amended: the taste point is strictly closer to the 5-rated track's  *)
(* vector than the unweighted centroid is whenever that vector differs     *)
(* from the unweighted centroid; when it equals the centroid both          *)
(* distances are zero.                                                     *)
C12_CloserUnlessAtCentroid ==
    (OneFiveNineOnes /\ rec_calls # <<>>)
        => IF 10 * FiveRatedVector # UnweightedSum
           THEN TastePointCloser
           ELSE TastePointAsClose /\ FiveRatedVector * CallWeight = CallMoment

C12_Witness ==
    /\ OneFiveNineOnes /\ rec_calls # <<>>
    /\ Cardinality(RequestedIds) = 10
    /\ 10 * FiveRatedVector # UnweightedSum
    /\ IsRecommendResult

-----------------------------------------------------------------------------
(* C13: every successful sample response of a catalog of at least ten rows  *)
(* holds exactly 10 songs, with display ids 0..9 in response order, with   *)
(* pairwise distinct df_index values that are catalog identifiers, and     *)
(* with `total` equal to the number of songs; the handler run that         *)
(* produces it leaves the loaded recommender as it found it, so nothing is *)
(* carried from one sample call to the next.                               *)

SampleSucceeded == IsSample /\ response.status = 200

SongsWellFormed(resp) ==
    /\ Len(resp.songs) = 10
    /\ \A i \in 1..Len(resp.songs) : resp.songs[i].id = i - 1
    /\ \A i \in 1..Len(resp.songs) : resp.songs[i].df_index \in RowIds(recommender)
    /\ \A i, j \in 1..Len(resp.songs) :
          i # j => resp.songs[i].df_index # resp.songs[j].df_index
    /\ resp.total = Len(resp.songs)

C13_SampleTenDistinctSongs ==
    [][(Idle /\ SampleSucceeded' /\ CatalogSize(recommender) >= 10)
          => (SongsWellFormed(response') /\ recommender' = recommender)]_vars

\* a successful sample of a catalog larger than the sample, not in row order
C13_Witness ==
    /\ SampleSucceeded
    /\ CatalogSize(recommender) > 10
    /\ response.songs[1].df_index > response.songs[2].df_index
    /\ SongsWellFormed(response)

-----------------------------------------------------------------------------
(* C11: for a fixed loaded catalog, two recommend requests with the same    *)
(* ten (identifier, rating) pairs and the same K produce the same taste    *)
(* point and the same response, whatever sample requests, uploads,         *)
(* analysis requests or other recommend requests are handled in between.   *)

RepeatsFirst == IsSubmit /\ first.seen /\ request.data = first.data

-----------------------------------------------------------------------------
(* C15: no request handler of any endpoint reassigns or mutates the loaded  *)
(* recommender: every step of the serving layer leaves the global          *)
(* `recommender` as it was after process start.                            *)

C15_RecommenderNeverWritten == [][recommender' = recommender]_vars

\* a loaded recommender after an upload was accepted and answered
C15_Witness ==
    /\ request = UploadRequest
    /\ response.status = 200
    /\ df # NoData
    /\ recommender.loaded

-----------------------------------------------------------------------------
(* C18: an /upload request that ends in an error response leaves the       *)
(* global table exactly as it was before the request.                      *)

C18_FailedUploadKeepsTable ==
    [][(Idle /\ request' = UploadRequest /\ IsError(response')) => df' = df]_vars

-----------------------------------------------------------------------------
(* C14: every recommend request the server answers with a recommendation   *)
(* list carries exactly ten ratings, each referencing a track that a       *)
(* preceding sample response returned.                                     *)

C14_AcceptedRatingsWereSampled ==
    (IsSubmit /\ IsRecommendationList(response))
        => /\ Len(RequestItems) = 10
           /\ RequestedIds \subseteq sampled

-----------------------------------------------------------------------------
(* C16: under every interleaving of two concurrent /upload requests, once  *)
(* both have finished the global table is the completely processed table  *)
(* of one of the two uploads, never a table in which a derived column      *)
(* computed from one upload's rows is attached to the other upload's rows. *)

BothFinished == uploads # NoThreads /\ \A t \in Threads : uploads[t].pc = "done"

C16_TableOfOneUpload ==
    BothFinished => df \in {Processed(uploads[t].file) : t \in Threads}

-----------------------------------------------------------------------------
(* C17: when one of the nine feature columns is absent from the dataset    *)
(* under every spelling of its case, the build stops at the column check   *)
(* with exit code 1 and writes none of the three artifacts; an artifact    *)
(* is written only after the column check, the imputation, the scaling     *)
(* and the index fit are done.                                             *)

FeatureAbsent ==
    \E i \in 1..Len(FeatureCols) :
        \A col \in build.csv.columns : ToLower(col) # FeatureCols[i]

C17_AbortsBeforeArtifacts ==
    /\ (build.csv.found /\ FeatureAbsent)
          => /\ build.artifacts = {}
             /\ build.pc \in {"load", "lower", "check", "exit"}
             /\ build.pc = "exit"
                   => build.exit_code = 1 /\ build.error = "Missing columns"
    /\ build.artifacts # {}
          => {"check", "fillna", "scale", "fit"} \subseteq build.done

\* the build stopped on a dataset written in title case that lacks one feature
C17_Witness ==
    /\ build.csv.found /\ FeatureAbsent
    /\ "Valence" \in build.csv.columns
    /\ build.pc = "exit"
    /\ build.exit_code = 1
    /\ build.missing_cols # <<>>
    /\ build.artifacts = {}

-----------------------------------------------------------------------------
(* C19: in the rating page, with songs loaded and current_song_index = k,   *)
(* user_ratings has an entry for every index 0..k-1; and when Get          *)
(* Recommendations is pressed, submit_ratings finds an entry for every     *)
(* index and sends exactly one rating per sampled song, in sample order.   *)

RatedUpTo(ss) == \A i \in 0..(ss.current_song_index - 1) : i \in DOMAIN ss.user_ratings

\* the ratings array sent carries the songs' identifiers in sample order, each
\* with the rating stored for it
SentInSampleOrder(ss) ==
    /\ Len(RequestItems) = Len(ss.songs_to_rate)
    /\ \A i \in 1..Len(RequestItems) :
          /\ RequestItems[i].df_index = ss.songs_to_rate[i].df_index
          /\ RequestItems[i].rating = Num(ss.user_ratings[i - 1].rating)

C19_EverySongRatedBeforeSubmit ==
    /\ session_state.songs_to_rate # <<>> => RatedUpTo(session_state)
    /\ session_state.exception # "KeyError"
    /\ IsSubmit => SentInSampleOrder(session_state)

\* ratings submitted and answered, after ratings of both kinds were given
C19_Witness ==
    /\ IsSubmit
    /\ response.status = 200
    /\ ~session_state.rating_phase
    /\ SentInSampleOrder(session_state)
    /\ \E i, j \in 1..Len(RequestItems) : RequestItems[i].rating # RequestItems[j].rating

-----------------------------------------------------------------------------
(* C20: every entry stored in user_ratings under key i has a rating in     *)
(* 1..5 and the df_index of songs_to_rate[i]; no step moves on from a song *)
(* through Next or Get Recommendations while the current rating is 0.      *)

EntriesValid(ss) ==
    \A i \in DOMAIN ss.user_ratings :
        /\ ss.user_ratings[i].rating \in 1..5
        /\ i + 1 \in 1..Len(ss.songs_to_rate)
        /\ ss.user_ratings[i].df_index = ss.songs_to_rate[i + 1].df_index

MovedOn ==
    \/ session_state'.current_song_index = session_state.current_song_index + 1
    \/ request' = SubmitRequest(request'.data) /\ request'.data.body

C20_StoredRatingsValid ==
    [][/\ EntriesValid(session_state')
       /\ MovedOn => session_state.current_rating > 0]_vars

\* the user has gone back from an unrated song to a rated one
C20_Witness ==
    /\ SongsShown
    /\ session_state.current_song_index = 1
    /\ session_state.current_rating = 5
    /\ DOMAIN session_state.user_ratings = {0, 1}
    /\ session_state.user_ratings[0].rating = 1
    /\ EntriesValid(session_state)

-----------------------------------------------------------------------------
(* C21: the rating phase ends only in a run whose recommend request came   *)
(* back with a result, and while it is over the stored recommendations are *)
(* a 200 answer with a non-empty list, the answer of that run.  A run      *)
(* whose recommend request comes back without a result stays in the rating *)
(* phase on the same song of the same sample, and user_ratings is the      *)
(* dictionary submit_ratings() read: the entries that were sent, the other *)
(* songs' entries as they were before the click.                           *)

\* the run sent the ratings and got no result back
SubmitFailed == IsSubmit' /\ response'.status # 200

\* the rating phase ends in this run
PhaseEnds == session_state.rating_phase /\ ~session_state'.rating_phase

\* the recommendations stored are a non-empty result
HoldsResult(ss) ==
    /\ ss.recommendations.status = 200
    /\ ss.recommendations.recommendations # <<>>

\* the dictionary still holds entry by entry the ratings that were sent
RetryReady ==
    /\ session_state'.rating_phase
    /\ session_state'.recommendations = session_state.recommendations
    /\ session_state'.songs_to_rate = session_state.songs_to_rate
    /\ session_state'.current_song_index = session_state.current_song_index
    /\ session_state'.current_rating = session_state.current_rating
    /\ DOMAIN session_state'.user_ratings = 0..(Len(session_state.songs_to_rate) - 1)
    /\ \A i \in DOMAIN session_state.user_ratings :
          i # session_state.current_song_index
              => session_state'.user_ratings[i] = session_state.user_ratings[i]
    /\ \A i \in 1..Len(RequestItems') :
          /\ session_state'.user_ratings[i - 1].df_index = RequestItems'[i].df_index
          /\ Num(session_state'.user_ratings[i - 1].rating) = RequestItems'[i].rating

C21_PhaseEndsOnlyWithResult ==
    [][/\ PhaseEnds => /\ IsSubmit'
                       /\ response'.status = 200
                       /\ session_state'.recommendations = response'
       /\ ~session_state'.rating_phase => HoldsResult(session_state')
       /\ SubmitFailed => RetryReady]_vars

\* the server answered the ratings with an error and the page still shows the
\* last song with all ten ratings stored
C21_Witness ==
    /\ IsSubmit
    /\ response.status = 500
    /\ session_state.rating_phase
    /\ session_state.current_song_index = Len(session_state.songs_to_rate) - 1
    /\ Len(session_state.songs_to_rate) = SampleSize
    /\ DOMAIN session_state.user_ratings = 0..(SampleSize - 1)
    /\ session_state.recommendations = NoResponse

-----------------------------------------------------------------------------
(* C22: a GET request to an analysis endpoint or to /health leaves the     *)
(* global playlist table, its rows and its columns, as it found it.        *)

\* the endpoints that analyse the uploaded table
UserAnalysisGets ==
    {"stats", "top-artists", "top-tracks", "mood-distribution", "listening-age",
     "playlist-age", "popularity-distribution", "explicit-analysis",
     "temporal-analysis"}

\* the run handled a GET request to an analysis endpoint or to /health
AnalysisGetHandled == request'.endpoint \in UserAnalysisGets \cup {"health"}

C22_GetLeavesTable ==
    [][AnalysisGetHandled => df' = df]_vars

-----------------------------------------------------------------------------
(* C23: while no upload has assigned the playlist table, every GET request *)
(* to a user-analysis endpoint is answered 400 with an error that reads    *)
(* 'No data loaded' (for /stats and /mood-distribution followed by the     *)
(* hint to upload first) and carries no analysis data.                     *)

\* the answers to `df is None`
NoDataAnswers == {NoDataError, NoDataUploadFirstError}

\* a user-analysis request was handled while the table was unassigned
AnalysisBeforeUpload == request.endpoint \in UserAnalysisGets /\ df = NoData

C23_NoDataBeforeUpload ==
    AnalysisBeforeUpload
        => /\ response \in NoDataAnswers
           /\ response.status = 400
           /\ "rows" \notin DOMAIN response

\* /mood-distribution asked while the model is loaded and no table is
C23_Witness ==
    /\ request = GetRequest("mood-distribution")
    /\ df = NoData
    /\ recommender.loaded
    /\ response = NoDataUploadFirstError

-----------------------------------------------------------------------------
(* C24: while the rating page shows songs, current_song_index is an index  *)
(* of songs_to_rate (0..len-1); a run moves it by at most one, backwards   *)
(* only from an index > 0 and forwards only from a song that is not the    *)
(* last one.                                                               *)

\* the index names one of the songs loaded
IndexInRange(ss) ==
    ss.current_song_index \in 0..(Len(ss.songs_to_rate) - 1)

\* the run moved the index within the same sample
IndexMoved ==
    /\ SongsShown
    /\ session_state'.songs_to_rate = session_state.songs_to_rate
    /\ session_state'.current_song_index # session_state.current_song_index

C24_IndexWithinSongs ==
    [][/\ (session_state'.rating_phase /\ session_state'.songs_to_rate # <<>>)
              => IndexInRange(session_state')
       /\ IndexMoved =>
              \/ /\ session_state'.current_song_index = session_state.current_song_index - 1
                 /\ session_state.current_song_index > 0
              \/ /\ session_state'.current_song_index = session_state.current_song_index + 1
                 /\ session_state.current_song_index < Len(session_state.songs_to_rate) - 1]_vars

\* the user went through all ten songs and back to the first one
C24_Witness ==
    /\ SongsShown
    /\ session_state.current_song_index = 0
    /\ Len(session_state.songs_to_rate) = SampleSize
    /\ DOMAIN session_state.user_ratings = 0..(SampleSize - 1)
    /\ session_state.recommendations = NoResponse
    /\ request = NoRequest

-----------------------------------------------------------------------------
(* C25: a run that leaves song i with a rating r > 0 on display stores r   *)
(* for song i; no run changes the stored rating of a song other than the   *)
(* one on display; and the rating displayed on arrival at a song, by Next, *)
(* by Previous or by a fresh load, is the rating stored for that song, or  *)
(* 0 when none is stored.  So every return to song i shows the r it was    *)
(* left with, and no song shows a rating given to another one.             *)

\* the run kept the sample on display
SameSongs ==
    /\ SongsShown
    /\ session_state'.rating_phase
    /\ session_state'.songs_to_rate = session_state.songs_to_rate

\* the run put a new sample on display
SongsArrived ==
    /\ session_state.songs_to_rate = <<>>
    /\ session_state'.songs_to_rate # <<>>

\* the rating displayed is the one stored for the song displayed, 0 if none
ShowsStored(ss) ==
    ss.current_rating =
        IF ss.current_song_index \in DOMAIN ss.user_ratings
        THEN ss.user_ratings[ss.current_song_index].rating
        ELSE 0

\* the stored ratings of the songs not on display stay as they are
OthersKept ==
    /\ DOMAIN session_state'.user_ratings
           \subseteq DOMAIN session_state.user_ratings \cup {session_state.current_song_index}
    /\ \A k \in DOMAIN session_state.user_ratings :
          k # session_state.current_song_index
              => /\ k \in DOMAIN session_state'.user_ratings
                 /\ session_state'.user_ratings[k] = session_state.user_ratings[k]

\* the rating on display when the song is left is stored for it
LeftRatingStored ==
    session_state.current_rating > 0
        => /\ session_state.current_song_index \in DOMAIN session_state'.user_ratings
           /\ session_state'.user_ratings[session_state.current_song_index].rating
                  = session_state.current_rating

C25_RatingFollowsSong ==
    [][/\ SameSongs => OthersKept
       /\ IndexMoved => LeftRatingStored /\ ShowsStored(session_state')
       /\ SongsArrived => ShowsStored(session_state') /\ session_state'.current_rating = 0
       /\ (session_state'.rating_phase /\ session_state'.songs_to_rate # <<>>
             /\ session_state'.current_rating = 0)
              => session_state'.current_song_index \notin DOMAIN session_state'.user_ratings]_vars

\* back on the first song, which shows its 5 while the second song keeps its 1
C25_Witness ==
    /\ SongsShown
    /\ request = NoRequest
    /\ session_state.current_song_index = 0
    /\ session_state.current_rating = 5
    /\ DOMAIN session_state.user_ratings = {0, 1, 2}
    /\ session_state.user_ratings[0].rating = 5
    /\ session_state.user_ratings[1].rating = 1
    /\ session_state.user_ratings[2].rating = 5

-----------------------------------------------------------------------------
(* C26: once a sample of songs is on display and the model has tracks left *)
(* to recommend, the user who keeps rating and pressing Next Song / Get    *)
(* Recommendations reaches the recommendations phase; Rate New Songs there *)
(* puts every session variable back to its initial value, and from the     *)
(* initial values the next run requests a new sample.                      *)

\* the run left the recommendations phase
StartedOver == ~session_state.rating_phase /\ session_state'.rating_phase

C26_FlowReachesRecommendations ==
    /\ (SongsShown /\ RecommendCanSucceed) ~> ~session_state.rating_phase
    /\ [][StartedOver => session_state' = NoSession]_vars
    /\ (session_state = NoSession) ~> IsSample

\* the recommendations phase reached with ten ratings of 5 sent
C26_Witness ==
    /\ ~session_state.rating_phase
    /\ RecommendCanSucceed
    /\ IsSubmit
    /\ session_state.recommendations = response
    /\ response.count > 0
    /\ Len(session_state.songs_to_rate) = SampleSize
    /\ \A i \in 0..(SampleSize - 1) : session_state.user_ratings[i].rating = MaxRating

====
